---------------------------- MODULE Spec2Model ----------------------------
(***************************************************************************)
(* Model of src/trading_strategies.py: the TradingBacktester ledger, its   *)
(* metrics, and the three strategy classes that append trades to it.       *)
(*                                                                         *)
(* Numbers.  The program computes with Python numbers.  The model computes *)
(* with exact rationals <<n, d>> (d > 0, lowest terms), so that every      *)
(* product, quotient and comparison of the source is evaluated, not        *)
(* assumed.  Floating-point rounding is not modelled.  A true division by  *)
(* zero raises ZeroDivisionError, as it does for Python ints and floats.   *)
(* float('inf') is the pair <<1, 0>>.                                      *)
(***************************************************************************)
EXTENDS Integers, Sequences, FiniteSets, TLC

VARIABLES
    initial_capital,   \* TradingBacktester.initial_capital
    current_capital,   \* TradingBacktester.current_capital
    trades,            \* TradingBacktester.trades, in insertion order
    call,              \* the method call made last, with its arguments
    ret                \* what that call returned or raised

vars == <<initial_capital, current_capital, trades, call, ret>>

\* The ledger: the fields of TradingBacktester that any method reads or
\* writes (positions and portfolio_history are created empty and never used).
ledger == <<initial_capital, current_capital, trades>>

-----------------------------------------------------------------------------
(* Bounds of the model *)

\* The longest trade list explored.
MaxTrades == 2

-----------------------------------------------------------------------------
(* Exact rational arithmetic *)

Abs(n) == IF n < 0 THEN -n ELSE n

RECURSIVE GCD(_, _)
GCD(a, b) == IF b = 0 THEN a ELSE GCD(b, a % b)

\* n / d in lowest terms with a positive denominator (d # 0).
Norm(n, d) ==
    LET s == IF d < 0 THEN -1 ELSE 1
        g == GCD(Abs(n), Abs(d))
    IN  <<(s * n) \div g, (s * d) \div g>>

R(n) == <<n, 1>>
Frac(n, d) == Norm(n, d)
Zero == R(0)
Inf == <<1, 0>>

IsZero(a) == a[1] = 0
RNeg(a) == <<-a[1], a[2]>>
RAdd(a, b) ==
    LET g == GCD(a[2], b[2])
    IN  Norm(a[1] * (b[2] \div g) + b[1] * (a[2] \div g), (a[2] \div g) * b[2])
RSub(a, b) == RAdd(a, RNeg(b))
RMul(a, b) ==
    LET g1 == GCD(Abs(a[1]), b[2])
        g2 == GCD(Abs(b[1]), a[2])
    IN  Norm((a[1] \div g1) * (b[1] \div g2), (a[2] \div g2) * (b[2] \div g1))
\* a / b for b # 0; the callers test b first, as the division would raise.
RDiv(a, b) == RMul(a, Norm(b[2], b[1]))
RLt(a, b) == a[1] * b[2] < b[1] * a[2]
RLe(a, b) == a[1] * b[2] <= b[1] * a[2]
RAbs(a) == <<Abs(a[1]), a[2]>>
\* Python's max(a, b): b only when it is greater.
RMax(a, b) == IF RLt(a, b) THEN b ELSE a


-----------------------------------------------------------------------------
(* Inputs the operations are called with *)

\* TradingBacktester(initial_capital): the constructor takes any number.
InitialCapitals == {R(-100), R(0), R(100)}

\* token_data dictionaries: two rows of the sample data of
\* run_backtest_simulation, and a row with fields missing.
CRV == [TOKEN_SYMBOL |-> "CRV", TM_TRADER_GRADE |-> R(85),
        HOLDING_RETURNS |-> Frac(-9423, 10000),
        TRADING_SIGNALS_RETURNS |-> Frac(68534, 10000), TOKEN_TREND |-> R(1)]
REQ == [TOKEN_SYMBOL |-> "REQ", TM_TRADER_GRADE |-> Frac(8821, 100),
        HOLDING_RETURNS |-> Frac(37339, 10000),
        TRADING_SIGNALS_RETURNS |-> Frac(-8131, 10000), TOKEN_TREND |-> R(1)]
GradeOnly == [TM_TRADER_GRADE |-> R(90)]
Tokens == {CRV, REQ, GradeOnly}

EntryPrices == {R(0), R(100)}
ExitPrices == {R(50), R(200)}
\* The quantity of add_trade called directly by a client.
Quantities == {R(2)}

Strategies == {"SignalReversalStrategy", "LongTermHoldStrategy",
               "TrendFollowingStrategy"}

-----------------------------------------------------------------------------
(* Strategy classes *)

\* dict.get(key, default)
Get(token_data, key, default) ==
    IF key \in DOMAIN token_data THEN token_data[key] ELSE default

\* self.name
StrategyName(s) ==
    CASE s = "SignalReversalStrategy" -> "TM Signal-Driven Reversal"
      [] s = "LongTermHoldStrategy" -> "TM Grade & Long-Term Hold"
      [] s = "TrendFollowingStrategy" -> "TM Trend-Aligned Signal Following"

\* The default of simulate_trade's position_size parameter.
DefaultPositionSize(s) ==
    CASE s = "SignalReversalStrategy" -> Frac(5, 100)
      [] s = "LongTermHoldStrategy" -> Frac(15, 100)
      [] s = "TrendFollowingStrategy" -> Frac(8, 100)

\* timedelta(days=...) subtracted from datetime.now() for entry_date.
HoldingDays(s) ==
    CASE s = "SignalReversalStrategy" -> 30
      [] s = "LongTermHoldStrategy" -> 180
      [] s = "TrendFollowingStrategy" -> 14

\* position_size as a caller passes it: omitted (the default), or also the
\* whole capital.
DefaultSize(s) == {DefaultPositionSize(s)}
AnySize(s) == {DefaultPositionSize(s), R(1)}

SignalReversalStrategy_evaluate_entry(token_data) ==
    /\ RLe(R(80), Get(token_data, "TM_TRADER_GRADE", Zero))
    /\ RLt(Get(token_data, "HOLDING_RETURNS", Zero), Frac(10, 100))
    /\ RLe(R(1), Get(token_data, "TRADING_SIGNALS_RETURNS", Zero))

LongTermHoldStrategy_evaluate_entry(token_data) ==
    LET trading_returns == Get(token_data, "TRADING_SIGNALS_RETURNS", Zero)
        holding_returns == Get(token_data, "HOLDING_RETURNS", Zero)
    IN  /\ RLe(R(88), Get(token_data, "TM_TRADER_GRADE", Zero))
        /\ RLe(R(1), holding_returns)
        /\ \/ RLt(trading_returns, RMul(Frac(5, 10), holding_returns))
           \/ RLt(trading_returns, Zero)

TrendFollowingStrategy_evaluate_entry(token_data) ==
    LET trading_returns == Get(token_data, "TRADING_SIGNALS_RETURNS", Zero)
        holding_returns == Get(token_data, "HOLDING_RETURNS", Zero)
    IN  /\ RLe(R(75), Get(token_data, "TM_TRADER_GRADE", Zero))
        /\ Get(token_data, "TOKEN_TREND", Zero) = R(1)
        /\ RLt(holding_returns, trading_returns)
        /\ RLt(Zero, trading_returns)

evaluate_entry(s, token_data) ==
    CASE s = "SignalReversalStrategy" -> SignalReversalStrategy_evaluate_entry(token_data)
      [] s = "LongTermHoldStrategy" -> LongTermHoldStrategy_evaluate_entry(token_data)
      [] s = "TrendFollowingStrategy" -> TrendFollowingStrategy_evaluate_entry(token_data)

-----------------------------------------------------------------------------
(* TradingBacktester.add_trade *)

\* What a call returns: a value of some kind, or the exception it raised.
Returned(kind, val) == [kind |-> kind, val |-> val]
None == Returned("None", <<>>)
ZeroDivisionError == Returned("raise", "ZeroDivisionError")

\* Line 36.
ProfitLossReversed(entry_price, exit_price, quantity) ==
    RMul(RSub(entry_price, exit_price), quantity)
ProfitLoss(entry_price, exit_price, quantity) ==
    RMul(RSub(exit_price, entry_price), quantity)

\* Line 37, for entry_price # 0.
PnlPct(entry_price, exit_price) ==
    RMul(RDiv(RSub(exit_price, entry_price), entry_price), R(100))

\* The trade dictionary of lines 39-49.  Dates are in days relative to the
\* instant of the call.
Trade(symbol, entry_price, exit_price, quantity, entry_date, exit_date, strategy) ==
    [symbol |-> symbol, entry_price |-> entry_price, exit_price |-> exit_price,
     quantity |-> quantity, entry_date |-> entry_date, exit_date |-> exit_date,
     profit_loss |-> ProfitLoss(entry_price, exit_price, quantity),
     pnl_pct |-> PnlPct(entry_price, exit_price),
     strategy |-> strategy]

\* Line 51: self.current_capital += profit_loss
NewCapitalWrongField(capital, trade) == RAdd(capital, trade.pnl_pct)
NewCapital(capital, trade) == RAdd(capital, trade.profit_loss)

\* add_trade as a step on the ledger.  The division of line 37 raises before
\* anything is appended when entry_price is 0.
add_trade(symbol, entry_price, exit_price, quantity, entry_date, exit_date, strategy) ==
    IF IsZero(entry_price)
    THEN /\ ret' = ZeroDivisionError
         /\ UNCHANGED ledger
    ELSE LET trade == Trade(symbol, entry_price, exit_price, quantity,
                            entry_date, exit_date, strategy)
         IN  /\ trades' = Append(trades, trade)
             /\ current_capital' = NewCapital(current_capital, trade)
             /\ ret' = Returned("trade", trade)
             /\ UNCHANGED initial_capital

-----------------------------------------------------------------------------
(* TradingBacktester.calculate_metrics *)

\* df[df['profit_loss'] > 0] and df[df['profit_loss'] < 0]
Winning(ts) == SelectSeq(ts, LAMBDA t : RLt(Zero, t.profit_loss))
Losing(ts) == SelectSeq(ts, LAMBDA t : RLt(t.profit_loss, Zero))

\* ['profit_loss'].sum()
RECURSIVE SumProfitLoss(_)
SumProfitLoss(ts) ==
    IF Len(ts) = 0 THEN Zero
    ELSE RAdd(SumProfitLoss(SubSeq(ts, 1, Len(ts) - 1)), ts[Len(ts)].profit_loss)

RECURSIVE SumPnlPct(_)
SumPnlPct(ts) ==
    IF Len(ts) = 0 THEN Zero
    ELSE RAdd(SumPnlPct(SubSeq(ts, 1, Len(ts) - 1)), ts[Len(ts)].pnl_pct)

\* ['pnl_pct'].mean() of a non-empty selection
MeanPnlPct(ts) == RDiv(SumPnlPct(ts), R(Len(ts)))

\* The drawdown of line 82 against the peak of lines 79-81.
DrawdownOnInitial(peak, current_value) ==
    RMul(RDiv(RSub(peak, current_value), initial_capital), R(100))
Drawdown(peak, current_value) ==
    RMul(RDiv(RSub(peak, current_value), peak), R(100))

\* The loop of lines 75-83 after its first k iterations: the local variables,
\* and whether the division of line 82 has raised.
RECURSIVE Scan(_, _, _)
Scan(ts, initial, k) ==
    IF k = 0
    THEN [peak |-> initial, current_value |-> initial, drawdown |-> Zero,
          max_drawdown |-> Zero, raised |-> FALSE]
    ELSE LET p == Scan(ts, initial, k - 1)
             current_value == RAdd(p.peak, ts[k].profit_loss)
             peak == IF RLt(p.peak, current_value) THEN current_value ELSE p.peak
         IN  IF p.raised THEN p
             ELSE IF IsZero(peak)
             THEN [p EXCEPT !.peak = peak, !.current_value = current_value,
                            !.raised = TRUE]
             ELSE LET drawdown == Drawdown(peak, current_value)
                  IN  [peak |-> peak, current_value |-> current_value,
                       drawdown |-> drawdown,
                       max_drawdown |-> RMax(p.max_drawdown, drawdown),
                       raised |-> FALSE]

\* return {} of line 57
EmptyDict == [key \in {} |-> Zero]

\* Lines 54-96.  Line 66 divides by initial_capital, line 82 by peak.
calculate_metrics(ts, initial, current) ==
    IF Len(ts) = 0 THEN Returned("dict", EmptyDict)
    ELSE IF IsZero(initial) THEN ZeroDivisionError
    ELSE LET total_trades == Len(ts)
             winning_trades == Len(Winning(ts))
             losing_trades == Len(Losing(ts))
             scan == Scan(ts, initial, Len(ts))
         IN  IF scan.raised THEN ZeroDivisionError
             ELSE Returned("dict",
                [total_trades |-> total_trades,
                 winning_trades |-> winning_trades,
                 losing_trades |-> losing_trades,
                 win_rate |-> IF total_trades > 0
                              THEN RMul(RDiv(R(winning_trades), R(total_trades)), R(100))
                              ELSE Zero,
                 total_return |-> RMul(RDiv(RSub(current, initial), initial), R(100)),
                 avg_win |-> IF winning_trades > 0 THEN MeanPnlPct(Winning(ts)) ELSE Zero,
                 avg_loss |-> IF losing_trades > 0 THEN MeanPnlPct(Losing(ts)) ELSE Zero,
                 profit_factor |-> IF losing_trades > 0
                                   THEN RAbs(RDiv(SumProfitLoss(Winning(ts)),
                                                  SumProfitLoss(Losing(ts))))
                                   ELSE Inf,
                 max_drawdown |-> scan.max_drawdown,
                 final_capital |-> current])

-----------------------------------------------------------------------------
(* simulate_trade of the three strategy classes *)

\* Lines 130, 180, 232.
QuantityFromInitial(capital, position_size, entry_price) ==
    RDiv(RMul(initial_capital, position_size), entry_price)
Quantity(capital, position_size, entry_price) ==
    RDiv(RMul(capital, position_size), entry_price)

\* The body shared by the three simulate_trade methods; they differ in the
\* predicate, the name and the holding period.
simulate_trade_unchecked(s, token_data, entry_price, exit_price, position_size) ==
    IF IsZero(entry_price)
    THEN /\ ret' = ZeroDivisionError
         /\ UNCHANGED ledger
    ELSE add_trade(Get(token_data, "TOKEN_SYMBOL", "UNKNOWN"),
                   entry_price, exit_price,
                   RDiv(RMul(current_capital, position_size), entry_price),
                   -HoldingDays(s), 0, StrategyName(s))
simulate_trade(s, token_data, entry_price, exit_price, position_size) ==
    IF evaluate_entry(s, token_data)
    THEN IF IsZero(entry_price)
         THEN /\ ret' = ZeroDivisionError
              /\ UNCHANGED ledger
         ELSE add_trade(Get(token_data, "TOKEN_SYMBOL", "UNKNOWN"),
                        entry_price, exit_price,
                        Quantity(current_capital, position_size, entry_price),
                        -HoldingDays(s), 0, StrategyName(s))
    ELSE /\ ret' = None
         /\ UNCHANGED ledger

-----------------------------------------------------------------------------
(* The state machine: a client calling the methods in any order *)

Init ==
    /\ initial_capital \in InitialCapitals
    /\ current_capital = initial_capital
    /\ trades = <<>>
    /\ call = [op |-> "__init__"]
    /\ ret = None

\* Construction with a positive capital, as the documentation asks.
InitPositive ==
    /\ Init
    /\ RLt(Zero, initial_capital)

\* A call that appends needs room in the bounded trade list.
Room(appends) == appends => Len(trades) < MaxTrades

AddTrade ==
    \E entry_price \in EntryPrices, exit_price \in ExitPrices,
       quantity \in Quantities :
        /\ Room(~IsZero(entry_price))
        /\ call' = [op |-> "add_trade", entry_price |-> entry_price,
                    quantity |-> quantity]
        /\ add_trade("MANUAL", entry_price, exit_price, quantity, -1, 0, "manual")

\* One call of simulate_trade on strategy object s.
SimulateTrade(s, token_data, entry_price, exit_price, position_size) ==
    /\ call' = [op |-> "simulate_trade", strategy |-> s,
                token_data |-> token_data, entry_price |-> entry_price,
                position_size |-> position_size]
    /\ simulate_trade(s, token_data, entry_price, exit_price, position_size)

SignalReversalSimulateTrade ==
    \E token_data \in Tokens, entry_price \in EntryPrices,
       exit_price \in ExitPrices,
       position_size \in DefaultSize("SignalReversalStrategy") :
        /\ Room(evaluate_entry("SignalReversalStrategy", token_data) /\ ~IsZero(entry_price))
        /\ SimulateTrade("SignalReversalStrategy", token_data, entry_price,
                         exit_price, position_size)

LongTermHoldSimulateTrade ==
    \E token_data \in Tokens, entry_price \in EntryPrices,
       exit_price \in ExitPrices,
       position_size \in DefaultSize("LongTermHoldStrategy") :
        /\ Room(evaluate_entry("LongTermHoldStrategy", token_data) /\ ~IsZero(entry_price))
        /\ SimulateTrade("LongTermHoldStrategy", token_data, entry_price,
                         exit_price, position_size)

TrendFollowingSimulateTrade ==
    \E token_data \in Tokens, entry_price \in EntryPrices,
       exit_price \in ExitPrices,
       position_size \in DefaultSize("TrendFollowingStrategy") :
        /\ Room(evaluate_entry("TrendFollowingStrategy", token_data) /\ ~IsZero(entry_price))
        /\ SimulateTrade("TrendFollowingStrategy", token_data, entry_price,
                         exit_price, position_size)

CalculateMetricsWritingCapital ==
    /\ call' = [op |-> "calculate_metrics"]
    /\ ret' = calculate_metrics(trades, initial_capital, current_capital)
    /\ current_capital' = Scan(trades, initial_capital, Len(trades)).current_value
    /\ UNCHANGED <<initial_capital, trades>>
CalculateMetrics ==
    /\ call' = [op |-> "calculate_metrics"]
    /\ ret' = calculate_metrics(trades, initial_capital, current_capital)
    /\ UNCHANGED ledger

Next ==
    \/ AddTrade
    \/ SignalReversalSimulateTrade
    \/ LongTermHoldSimulateTrade
    \/ TrendFollowingSimulateTrade
    \/ CalculateMetrics

Spec == Init /\ [][Next]_vars

\* The runs in which every trade comes from simulate_trade, called with a
\* positive entry price and a position size in (0, 1], on a ledger opened
\* with a positive capital.
PositiveEntryPrices == {p \in EntryPrices : RLt(Zero, p)}

SignalReversalSimulateValid ==
    \E token_data \in Tokens, entry_price \in PositiveEntryPrices,
       exit_price \in ExitPrices,
       position_size \in AnySize("SignalReversalStrategy") :
        /\ Room(evaluate_entry("SignalReversalStrategy", token_data) /\ ~IsZero(entry_price))
        /\ SimulateTrade("SignalReversalStrategy", token_data, entry_price,
                         exit_price, position_size)

LongTermHoldSimulateValid ==
    \E token_data \in Tokens, entry_price \in PositiveEntryPrices,
       exit_price \in ExitPrices,
       position_size \in AnySize("LongTermHoldStrategy") :
        /\ Room(evaluate_entry("LongTermHoldStrategy", token_data) /\ ~IsZero(entry_price))
        /\ SimulateTrade("LongTermHoldStrategy", token_data, entry_price,
                         exit_price, position_size)

TrendFollowingSimulateValid ==
    \E token_data \in Tokens, entry_price \in PositiveEntryPrices,
       exit_price \in ExitPrices,
       position_size \in AnySize("TrendFollowingStrategy") :
        /\ Room(evaluate_entry("TrendFollowingStrategy", token_data) /\ ~IsZero(entry_price))
        /\ SimulateTrade("TrendFollowingStrategy", token_data, entry_price,
                         exit_price, position_size)

NextSim ==
    \/ SignalReversalSimulateValid
    \/ LongTermHoldSimulateValid
    \/ TrendFollowingSimulateValid
    \/ CalculateMetrics

SpecSim == InitPositive /\ [][NextSim]_vars

-----------------------------------------------------------------------------
(* Properties *)

\* The metrics calculate_metrics would report in the current state.
Reported == calculate_metrics(trades, initial_capital, current_capital)

LastTrade == trades[Len(trades)]

\* The true peak-to-trough drawdown of the running capital: initial capital
\* plus the cumulative profit_loss, in insertion order.
RECURSIVE TrueScan(_, _, _)
TrueScan(ts, initial, k) ==
    IF k = 0
    THEN [capital |-> initial, peak |-> initial, max_drawdown |-> Zero]
    ELSE LET p == TrueScan(ts, initial, k - 1)
             capital == RAdd(p.capital, ts[k].profit_loss)
             peak == RMax(p.peak, capital)
             drawdown == RMul(RDiv(RSub(peak, capital), peak), R(100))
         IN  [capital |-> capital, peak |-> peak,
              max_drawdown |-> RMax(p.max_drawdown, drawdown)]

TrueMaxDrawdown == TrueScan(trades, initial_capital, Len(trades)).max_drawdown

\* C1: capital conservation.  In every state, so after every add_trade in any
\* sequence of calls, current_capital equals initial_capital plus the sum of
\* profit_loss over the trades list.
C1_CapitalConservation ==
    current_capital = RAdd(initial_capital, SumProfitLoss(trades))

\* Two trades with non-zero profit_loss, one from a strategy and one from a
\* direct add_trade, have been appended.
C1_Witness ==
    /\ Len(trades) >= 2
    /\ call.op = "add_trade"
    /\ ret.kind = "trade"
    /\ trades[1].strategy # "manual"
    /\ ~IsZero(trades[1].profit_loss)
    /\ ~IsZero(trades[2].profit_loss)

\* C2: sizing uses live capital.  Every simulate_trade call that records a
\* trade records the quantity (current_capital at the call * position_size) /
\* entry_price, and when earlier trades have moved current_capital away from
\* initial_capital the quantity differs from the one initial_capital gives.
C2_SizingUsesLiveCapital ==
    [][(call'.op = "simulate_trade" /\ ret'.kind = "trade") =>
          /\ ret'.val.quantity =
                RDiv(RMul(current_capital, call'.position_size), call'.entry_price)
          /\ current_capital # initial_capital =>
                ret'.val.quantity #
                    RDiv(RMul(initial_capital, call'.position_size), call'.entry_price)
      ]_vars

\* A second strategy has traded the same snapshot after the first one's trade
\* changed the capital, and its quantity is not the one initial_capital gives.
C2_Witness ==
    /\ call.op = "simulate_trade"
    /\ ret.kind = "trade"
    /\ Len(trades) = 2
    /\ trades[2] = ret.val
    /\ trades[1].symbol = trades[2].symbol
    /\ trades[1].strategy # trades[2].strategy
    /\ trades[1].strategy # "manual"
    /\ ~IsZero(trades[1].profit_loss)
    /\ ret.val.quantity #
          RDiv(RMul(initial_capital, call.position_size), call.entry_price)

\* C3: constructing the ledger with initial_capital <= 0 fails: no state is
\* one in which the constructor has returned a ledger whose capital is not
\* positive.
C3_ConstructorRejectsNonPositive ==
    (call.op = "__init__" /\ ret.kind = "None") => RLt(Zero, initial_capital)

\* C4: calculate_metrics on a ledger with no trades returns a record with
\* total_trades = 0, win_rate = 0, total_return = 0, max_drawdown = 0 and
\* profit_factor = +infinity.
C4_EmptyLedgerMetrics ==
    (call.op = "calculate_metrics" /\ Len(trades) = 0) =>
        /\ ret.kind = "dict"
        /\ {"total_trades", "win_rate", "total_return", "max_drawdown",
            "profit_factor"} \subseteq DOMAIN ret.val
        /\ ret.val.total_trades = 0
        /\ ret.val.win_rate = Zero
        /\ ret.val.total_return = Zero
        /\ ret.val.max_drawdown = Zero
        /\ ret.val.profit_factor = Inf

\* C5: calculate_metrics is side-effect free and idempotent.  A call leaves
\* initial_capital, current_capital and trades as they were, and a call that
\* follows another with no other call in between returns the same result.
C5_MetricsSideEffectFree ==
    [][call'.op = "calculate_metrics" =>
          /\ initial_capital' = initial_capital
          /\ current_capital' = current_capital
          /\ trades' = trades
          /\ ret'.kind = Reported.kind
          /\ ret'.val = Reported.val
          /\ call.op = "calculate_metrics" => (ret'.kind = ret.kind /\ ret'.val = ret.val)
      ]_vars

\* Metrics have been computed mid-run, on a ledger holding a losing trade
\* whose peak differs from the capital.
C5_Witness ==
    /\ call.op = "calculate_metrics"
    /\ ret.kind = "dict"
    /\ Len(trades) >= 1
    /\ Len(trades) < MaxTrades
    /\ ret.val.total_trades = Len(trades)
    /\ ret.val.losing_trades >= 1

\* C6: calculate_metrics never raises a division-by-zero fault on a ledger
\* reachable by construction and appends, and profit_factor is +infinity
\* when no trade loses.
C6_NoDivisionFault ==
    call.op = "calculate_metrics" =>
        /\ ret.kind # "raise"
        /\ (Len(trades) > 0 /\ Len(Losing(trades)) = 0) => ret.val.profit_factor = Inf

\* C7 as claimed: simulate_trade on a rejected snapshot returns None and
\* leaves the ledger unchanged; on an accepted snapshot it appends exactly
\* one trade at the end and returns it.
C7_AppendedIffAccepted ==
    [][call'.op = "simulate_trade" =>
          IF evaluate_entry(call'.strategy, call'.token_data)
          THEN /\ ret'.kind = "trade"
               /\ trades' = Append(trades, ret'.val)
          ELSE /\ ret'.kind = "None"
               /\ UNCHANGED ledger
      ]_vars

\* C7 amended: as claimed when entry_price # 0; an accepted snapshot with
\* entry_price = 0 raises ZeroDivisionError and leaves the ledger unchanged.
C7_AppendedIffAcceptedNonZeroEntry ==
    [][call'.op = "simulate_trade" =>
          IF evaluate_entry(call'.strategy, call'.token_data)
          THEN IF IsZero(call'.entry_price)
               THEN /\ ret'.kind = "raise"
                    /\ UNCHANGED ledger
               ELSE /\ ret'.kind = "trade"
                    /\ trades' = Append(trades, ret'.val)
                    /\ initial_capital' = initial_capital
          ELSE /\ ret'.kind = "None"
               /\ UNCHANGED ledger
      ]_vars

\* A strategy has rejected a snapshot with missing fields, on a ledger whose
\* last trade a strategy appended on an accepted snapshot.
C7_Witness ==
    /\ call.op = "simulate_trade"
    /\ ~evaluate_entry(call.strategy, call.token_data)
    /\ call.token_data = GradeOnly
    /\ ret.kind = "None"
    /\ Len(trades) >= 1
    /\ LastTrade.strategy = StrategyName("TrendFollowingStrategy")

\* C8: drawdown monotonicity.  Over the scan, max_drawdown after k trades is
\* at least max_drawdown after k - 1, and a losing trade with loss L scanned
\* at peak P contributes the drawdown L / P * 100, which is > 0.
C8_DrawdownMonotone ==
    \A k \in 1..Len(trades) :
        LET before == Scan(trades, initial_capital, k - 1)
            after == Scan(trades, initial_capital, k)
        IN  ~after.raised =>
              /\ RLe(before.max_drawdown, after.max_drawdown)
              /\ RLt(trades[k].profit_loss, Zero) =>
                    /\ after.drawdown =
                          RMul(RDiv(RNeg(trades[k].profit_loss), before.peak), R(100))
                    /\ RLt(Zero, after.drawdown)

\* C9: with initial_capital > 0 and every trade produced by simulate_trade
\* with entry_price > 0, exit_price > 0 and position_size in (0, 1],
\* current_capital stays strictly positive.
C9_CapitalStaysPositive == RLt(Zero, current_capital)

\* Two losing trades, the last one sized at the whole capital.
C9_Witness ==
    /\ Len(trades) >= 2
    /\ call.op = "simulate_trade"
    /\ ret.kind = "trade"
    /\ call.position_size = R(1)
    /\ RLt(trades[1].profit_loss, Zero)
    /\ RLt(LastTrade.profit_loss, Zero)
    /\ RLt(current_capital, initial_capital)

=============================================================================
